---------------------------- MODULE Spec2Model ----------------------------
(***************************************************************************)
(* A state-machine model of the DigiLawyer single-page application:        *)
(* the Login and SignUp forms, the router, the ChatInterface screen and    *)
(* the moot-court screen, with their reply timers.                         *)
(*                                                                         *)
(* React state is modelled as it behaves: a component's state is what the  *)
(* last render committed; an event handler reads the values of that        *)
(* render (its closure) and its updates are committed before the handler   *)
(* returns to the event loop; a setTimeout callback only queues its        *)
(* updates, which a later render commits (the action Render...). A build   *)
(* that renders inside the callback is the behaviour in which Render       *)
(* directly follows the timer.                                             *)
(*                                                                         *)
(* Text is a sequence of characters (one-character strings); a literal of  *)
(* the program is a sequence of one element, the literal.  The display     *)
(* timestamp of a chat message (new Date().toLocaleTimeString()) is not    *)
(* part of the model: nothing reads it.                                    *)
(*                                                                         *)
(* Spec is the whole application.  FairSpec is one page load on the chat   *)
(* and court screens with the event loop and React kept running; it        *)
(* carries the claims about what eventually happens to a timer.            *)
(***************************************************************************)
EXTENDS Integers, Sequences, FiniteSets, TLC

\* ------------------------------------------------------------- bounds
\* The clock of a court session stops MaxTicks ticks after its mount.
MaxTicks == 14
\* At most MaxTimers timers are pending at once.
MaxTimers == 2
\* At most MaxActs submits and uploads are accepted in one chat session.
MaxActs == 2

\* ---------------------------------------------------------- constants
SendDelayMs == 1500
UploadDelayMs == 2000
OpponentDelayMs == 1500
JudgeDelayMs == 2000
\* The clock advances in steps that divide every delay.
TickMs == UploadDelayMs - SendDelayMs
MaxAgeMs == MaxTicks * TickMs

Routes == {"/", "/login", "/signup", "/chat", "/court"}

\* In-application links: <<from, to>>.
Links ==
  { <<"/", "/login">>, <<"/", "/signup">>,
    <<"/login", "/signup">>, <<"/login", "/">>,
    <<"/signup", "/login">>, <<"/signup", "/">>,
    <<"/chat", "/court">> }

\* What the user can type into a form field.
FieldValues == {"", "a", "b"}
\* What the user can type into a chat or court input.
InputTexts == { <<>>, <<" ">>, <<" ", "a">> }

LoginErrorText == "Please enter both email and password."
FillAllFieldsText == "Please fill in all fields."
MismatchText == "Passwords do not match!"

GreetingText ==
  << "Hello! I am your AI Legal Assistant. You can ask me about Indian Penal Codes, draft legal documents, or upload case files for analysis. How can I help you today?" >>
PlaceholderText ==
  << "I have received your query regarding this legal matter. Based on Indian law context, I would suggest looking into Section of the specific act. (This is a placeholder response)." >>
UploadText == << "Analyzed attached document:" >>
AnalysisText ==
  << "I've scanned the document you uploaded. It appears to be a legal notice. Would you like me to summarize the key points?" >>
OpeningText ==
  << "Court is now in session. The Defendant may present their opening statement." >>

OpponentResponses ==
  << << "Objection! The counsel is leading the witness." >>,
     << "That is purely circumstantial evidence." >>,
     << "My learned friend fails to consider the precedence set in 1994." >>,
     << "I strongly disagree with that characterization of the facts." >>,
     << "The prosecution has not met the burden of proof." >> >>
JudgeResponses ==
  << << "Order in the court. I will allow the argument, proceed." >>,
     << "Sustained. Please rephrase, Counselor." >>,
     << "Overruled. The witness will answer the question." >>,
     << "I have heard enough on this point. Move along." >>,
     << "Noted. Let us see where this leads." >> >>

\* ------------------------------------------------------------- state
VARIABLES
  route,          \* the route the router shows
  credentials,    \* Login: the draft
  loginError,     \* Login: the error shown
  formData,       \* SignUp: the draft
  signupError,    \* SignUp: the error shown
  messages,       \* ChatInterface: the message list of the last render
  input,          \* ChatInterface: the text input
  isTyping,       \* ChatInterface: the awaiting-response flag
  chatQueue,      \* ChatInterface: timer updates queued, not yet rendered
  nSend,          \* accepted text submits of this chat session (history)
  nUpload,        \* accepted uploads of this chat session (history)
  courtMessages,  \* moot court: the message list of the last render
  inputText,      \* moot court: the text input
  isSimulating,   \* moot court: the awaiting-response flag
  courtQueue,     \* moot court: timer updates queued, not yet rendered
  timers,         \* the pending setTimeout timers, in the order they were set
  courtAge,       \* moot court: ms since the screen mounted
  last            \* the operation of the last step (history)

formVars == <<credentials, loginError, formData, signupError>>
chatVars == <<messages, input, isTyping, chatQueue, nSend, nUpload>>
courtVars == <<courtMessages, inputText, isSimulating, courtQueue>>
vars == <<route, credentials, loginError, formData, signupError,
          messages, input, isTyping, chatQueue, nSend, nUpload,
          courtMessages, inputText, isSimulating, courtQueue,
          timers, courtAge, last>>

\* ------------------------------------------------------------ helpers
IsSpace(c) == c \in {" ", "\t", "\n"}

RECURSIVE TrimStart(_)
TrimStart(s) ==
  IF s = <<>> THEN <<>>
  ELSE IF IsSpace(Head(s)) THEN TrimStart(Tail(s)) ELSE s

RECURSIVE TrimEnd(_)
TrimEnd(s) ==
  IF s = <<>> THEN <<>>
  ELSE IF IsSpace(s[Len(s)]) THEN TrimEnd(SubSeq(s, 1, Len(s) - 1)) ELSE s

\* String.prototype.trim
Trim(s) == TrimEnd(TrimStart(s))

\* s with its i-th element removed
RemoveAt(s, i) == SubSeq(s, 1, i - 1) \o SubSeq(s, i + 1, Len(s))

IsPrefix(s, t) == Len(s) <= Len(t) /\ SubSeq(t, 1, Len(s)) = s

\* The initial state of each screen (its useState initial values).
InitialCredentials == [email |-> "", password |-> ""]
InitialFormData == [email |-> "", password |-> "", confirmPassword |-> ""]
InitialChatMessages ==
  << [id |-> 1, text |-> GreetingText, sender |-> "bot", image |-> FALSE] >>
InitialCourtMessages ==
  << [id |-> 1, sender |-> "judge", text |-> OpeningText] >>

\* ChatReply with the reply to a text submit echoing the last message.
ChatReplyEcho(prev, u) ==
  IF u.kind = "send"
  THEN Append(prev, [id |-> u.id, text |-> prev[Len(prev)].text,
                     sender |-> "bot", image |-> FALSE])
  ELSE Append(prev, [id |-> Len(prev) + 1, text |-> AnalysisText,
                     sender |-> "bot", image |-> FALSE])

\* A timer queued by the chat screen, rendered: the functional update
\* prev => [...prev, reply].  The reply to a text submit carries the id its
\* handler computed; the reply to an upload takes prev.length + 1.
ChatReply(prev, u) ==
  IF u.kind = "send"
  THEN Append(prev, [id |-> u.id, text |-> PlaceholderText,
                     sender |-> "bot", image |-> FALSE])
  ELSE Append(prev, [id |-> Len(prev) + 1, text |-> AnalysisText,
                     sender |-> "bot", image |-> FALSE])

RECURSIVE ApplyChatQueue(_, _)
ApplyChatQueue(prev, q) ==
  IF q = <<>> THEN prev
  ELSE ApplyChatQueue(ChatReply(prev, Head(q)), Tail(q))

RECURSIVE ApplyCourtQueue(_, _)
ApplyCourtQueue(prev, q) ==
  IF q = <<>> THEN prev
  ELSE ApplyCourtQueue(Append(prev, Head(q).msg), Tail(q))

\* The state of the message hooks with every queued update applied.
ChatList == ApplyChatQueue(messages, chatQueue)
CourtList == ApplyCourtQueue(courtMessages, courtQueue)

\* Date.now() in the court screen, less its value when the screen mounted.
DateNow == courtAge

Min(a, b) == IF a <= b THEN a ELSE b

\* setTimeout: the timer is added after those already pending; left is the
\* time until it is due.  mark is set by Observe only, to follow one timer
\* from the moment it is pending to the moment it runs.
SetTimeout(ts, kind, id, delay, live) ==
  Append(ts, [kind |-> kind, id |-> id, delay |-> delay,
              left |-> delay, live |-> live, mark |-> FALSE])

\* A timer may run once its delay has elapsed and every timer set before it
\* with a delay no longer than its own has run.
CanFire(i) ==
  /\ i \in 1..Len(timers)
  /\ timers[i].left = 0
  /\ \A j \in 1..(i - 1) : timers[j].delay > timers[i].delay

\* Detach as it would be if unmounting a screen cleared its timers.
DetachCancel(ts) == SelectSeq(ts, LAMBDA t : FALSE)

\* Unmounting a screen leaves its timers pending; their callbacks then act
\* on a component that is no longer mounted, so the id a callback would have
\* given its reply is dropped with the screen.
Detach(ts) == [i \in 1..Len(ts) |-> [ts[i] EXCEPT !.live = FALSE, !.id = 0]]

\* MountScreens with the chat screen's state kept across unmount and mount.
MountScreensKeepChat ==
  /\ credentials' = InitialCredentials
  /\ loginError' = ""
  /\ formData' = InitialFormData
  /\ signupError' = ""
  /\ UNCHANGED <<messages, input, isTyping, chatQueue, nSend, nUpload>>
  /\ courtMessages' = InitialCourtMessages
  /\ inputText' = <<>>
  /\ isSimulating' = FALSE
  /\ courtQueue' = <<>>

\* Every screen at its initial state: the one that mounts is created from
\* its useState initial values, the others are not mounted.
MountScreens ==
  /\ credentials' = InitialCredentials
  /\ loginError' = ""
  /\ formData' = InitialFormData
  /\ signupError' = ""
  /\ messages' = InitialChatMessages
  /\ input' = <<>>
  /\ isTyping' = FALSE
  /\ chatQueue' = <<>>
  /\ nSend' = 0
  /\ nUpload' = 0
  /\ courtMessages' = InitialCourtMessages
  /\ inputText' = <<>>
  /\ isSimulating' = FALSE
  /\ courtQueue' = <<>>

\* Navigate with the chat and court routes behind a guard that shows the
\* login screen instead.
NavigateGuarded(r) ==
  /\ route' = IF r \in {"/chat", "/court"} THEN "/login" ELSE r
  /\ MountScreens
  /\ timers' = Detach(timers)
  /\ courtAge' = 0

\* navigate(r) of react-router: the shown screen unmounts, r's screen mounts.
Navigate(r) ==
  /\ route' = r
  /\ MountScreens
  /\ timers' = Detach(timers)
  /\ courtAge' = 0

Init ==
  /\ route \in Routes
  /\ credentials = InitialCredentials
  /\ loginError = ""
  /\ formData = InitialFormData
  /\ signupError = ""
  /\ messages = InitialChatMessages
  /\ input = <<>>
  /\ isTyping = FALSE
  /\ chatQueue = <<>>
  /\ nSend = 0
  /\ nUpload = 0
  /\ courtMessages = InitialCourtMessages
  /\ inputText = <<>>
  /\ isSimulating = FALSE
  /\ courtQueue = <<>>
  /\ timers = <<>>
  /\ courtAge = 0
  /\ last = "load"

\* --------------------------------------------------------- navigation
\* A click on one of the screens' links or buttons that call navigate().
ClickLink(r) ==
  /\ <<route, r>> \in Links
  /\ Navigate(r)
  /\ last' = "link"

\* The browser's back and forward buttons: the router shows another route
\* of the table without reloading the page.
HistoryGo(r) ==
  /\ r \in Routes
  /\ r # route
  /\ Navigate(r)
  /\ last' = "history"

\* A page load at route r (typed address or reload): nothing of the old
\* document survives, its timers included.
LoadUrl(r) ==
  /\ r \in Routes
  /\ route' = r
  /\ MountScreens
  /\ timers' = <<>>
  /\ courtAge' = 0
  /\ last' = "load"

\* Time passes: every pending timer comes TickMs closer to being due.  A
\* timer runs when it is due: time does not pass while one is due.  The
\* clock of a court session stops at MaxAgeMs.
Tick ==
  /\ \A i \in 1..Len(timers) : timers[i].left > 0
  /\ \/ timers # <<>>
     \/ route = "/court" /\ courtAge < MaxAgeMs
  /\ timers' = [i \in 1..Len(timers) |->
                  [timers[i] EXCEPT !.left = @ - TickMs]]
  /\ courtAge' = IF route = "/court" THEN Min(courtAge + TickMs, MaxAgeMs)
                 ELSE courtAge
  /\ last' = "tick"
  /\ UNCHANGED <<route, formVars, chatVars, courtVars>>

\* --------------------------------------------------------------- Login
\* LoginHandleChange without the clearing of the error.
LoginHandleChangeKeepError(name, value) ==
  /\ route = "/login"
  /\ credentials' = [credentials EXCEPT ![name] = value]
  /\ loginError' = loginError
  /\ last' = IF loginError # "" THEN "loginChangeClear" ELSE "loginChange"
  /\ UNCHANGED <<route, formData, signupError, chatVars, courtVars, timers, courtAge>>

\* handleChange; last tells a change made while an error was displayed from
\* one made while none was.
LoginHandleChange(name, value) ==
  /\ route = "/login"
  /\ credentials' = [credentials EXCEPT ![name] = value]
  /\ loginError' = IF loginError # "" THEN "" ELSE loginError
  /\ last' = IF loginError # "" THEN "loginChangeClear" ELSE "loginChange"
  /\ UNCHANGED <<route, formData, signupError, chatVars, courtVars, timers, courtAge>>

\* LoginHandleSubmit with && for || in its validation.
LoginHandleSubmitAnd ==
  /\ route = "/login"
  /\ last' = "loginSubmit"
  /\ IF credentials.email = "" /\ credentials.password = ""
     THEN /\ loginError' = LoginErrorText
          /\ UNCHANGED <<route, credentials, formData, signupError,
                         chatVars, courtVars, timers, courtAge>>
     ELSE Navigate("/chat")

LoginHandleSubmit ==
  /\ route = "/login"
  /\ last' = "loginSubmit"
  /\ IF credentials.email = "" \/ credentials.password = ""
     THEN /\ loginError' = LoginErrorText
          /\ UNCHANGED <<route, credentials, formData, signupError,
                         chatVars, courtVars, timers, courtAge>>
     ELSE Navigate("/chat")

\* -------------------------------------------------------------- SignUp
\* handleChange; last tells a change made while an error was displayed from
\* one made while none was.
SignUpHandleChange(name, value) ==
  /\ route = "/signup"
  /\ formData' = [formData EXCEPT ![name] = value]
  /\ signupError' = IF signupError # "" THEN "" ELSE signupError
  /\ last' = IF signupError # "" THEN "signupChangeClear" ELSE "signupChange"
  /\ UNCHANGED <<route, credentials, loginError, chatVars, courtVars, timers, courtAge>>

\* SignUpHandleSubmit comparing the two passwords before testing for empty
\* fields.
SignUpHandleSubmitCompareFirst ==
  /\ route = "/signup"
  /\ last' = "signupSubmit"
  /\ IF formData.password # formData.confirmPassword
     THEN /\ signupError' = MismatchText
          /\ UNCHANGED <<route, credentials, loginError, formData,
                         chatVars, courtVars, timers, courtAge>>
     ELSE IF formData.email = "" \/ formData.password = "" \/ formData.confirmPassword = ""
     THEN /\ signupError' = FillAllFieldsText
          /\ UNCHANGED <<route, credentials, loginError, formData,
                         chatVars, courtVars, timers, courtAge>>
     ELSE Navigate("/chat")

\* SignUpHandleSubmit without the comparison of the two passwords.
SignUpHandleSubmitNoCompare ==
  /\ route = "/signup"
  /\ last' = "signupSubmit"
  /\ IF formData.email = "" \/ formData.password = "" \/ formData.confirmPassword = ""
     THEN /\ signupError' = FillAllFieldsText
          /\ UNCHANGED <<route, credentials, loginError, formData,
                         chatVars, courtVars, timers, courtAge>>
     ELSE Navigate("/chat")

\* SignUpHandleSubmit navigating to the court simulator, as its comment says.
SignUpHandleSubmitToCourt ==
  /\ route = "/signup"
  /\ last' = "signupSubmit"
  /\ IF formData.email = "" \/ formData.password = "" \/ formData.confirmPassword = ""
     THEN /\ signupError' = FillAllFieldsText
          /\ UNCHANGED <<route, credentials, loginError, formData,
                         chatVars, courtVars, timers, courtAge>>
     ELSE IF formData.password # formData.confirmPassword
     THEN /\ signupError' = MismatchText
          /\ UNCHANGED <<route, credentials, loginError, formData,
                         chatVars, courtVars, timers, courtAge>>
     ELSE Navigate("/court")

SignUpHandleSubmit ==
  /\ route = "/signup"
  /\ last' = "signupSubmit"
  /\ IF formData.email = "" \/ formData.password = "" \/ formData.confirmPassword = ""
     THEN /\ signupError' = FillAllFieldsText
          /\ UNCHANGED <<route, credentials, loginError, formData,
                         chatVars, courtVars, timers, courtAge>>
     ELSE IF formData.password # formData.confirmPassword
     THEN /\ signupError' = MismatchText
          /\ UNCHANGED <<route, credentials, loginError, formData,
                         chatVars, courtVars, timers, courtAge>>
     ELSE Navigate("/chat")

\* ------------------------------------------------------- ChatInterface
\* onChange of the text input
SetInput(v) ==
  /\ route = "/chat"
  /\ input' = v
  /\ last' = "setInput"
  /\ UNCHANGED <<route, formVars, messages, isTyping, chatQueue, nSend, nUpload,
                 courtVars, timers, courtAge>>

\* HandleSend testing the input without trimming it.
HandleSendNoTrim ==
  /\ route = "/chat"
  /\ last' = "handleSend"
  /\ IF input = <<>>
     THEN UNCHANGED <<route, formVars, chatVars, courtVars, timers, courtAge>>
     ELSE /\ nSend + nUpload < MaxActs
          /\ Len(timers) < MaxTimers
          /\ messages' = Append(messages,
                [id |-> Len(messages) + 1, text |-> input,
                 sender |-> "user", image |-> FALSE])
          /\ chatQueue' = <<>>
          /\ input' = <<>>
          /\ isTyping' = TRUE
          /\ timers' = SetTimeout(timers, "send", Len(messages) + 2,
                                  SendDelayMs, TRUE)
          /\ nSend' = nSend + 1
          /\ UNCHANGED <<route, formVars, nUpload, courtVars, courtAge>>

\* HandleSend giving its reply the id of the user message.
HandleSendReplyIdOff ==
  /\ route = "/chat"
  /\ last' = "handleSend"
  /\ IF Trim(input) = <<>>
     THEN UNCHANGED <<route, formVars, chatVars, courtVars, timers, courtAge>>
     ELSE /\ nSend + nUpload < MaxActs
          /\ Len(timers) < MaxTimers
          /\ messages' = Append(messages,
                [id |-> Len(messages) + 1, text |-> input,
                 sender |-> "user", image |-> FALSE])
          /\ chatQueue' = <<>>
          /\ input' = <<>>
          /\ isTyping' = TRUE
          /\ timers' = SetTimeout(timers, "send", Len(messages) + 1,
                                  SendDelayMs, TRUE)
          /\ nSend' = nSend + 1
          /\ UNCHANGED <<route, formVars, nUpload, courtVars, courtAge>>

\* HandleSend with the input disabled while a reply is awaited.
HandleSendWhenIdle ==
  /\ route = "/chat"
  /\ ~isTyping
  /\ last' = "handleSend"
  /\ IF Trim(input) = <<>>
     THEN UNCHANGED <<route, formVars, chatVars, courtVars, timers, courtAge>>
     ELSE /\ nSend + nUpload < MaxActs
          /\ Len(timers) < MaxTimers
          /\ messages' = Append(messages,
                [id |-> Len(messages) + 1, text |-> input,
                 sender |-> "user", image |-> FALSE])
          /\ chatQueue' = <<>>
          /\ input' = <<>>
          /\ isTyping' = TRUE
          /\ timers' = SetTimeout(timers, "send", Len(messages) + 2,
                                  SendDelayMs, TRUE)
          /\ nSend' = nSend + 1
          /\ UNCHANGED <<route, formVars, nUpload, courtVars, courtAge>>

\* handleSend.  The handler reads messages of the last render; its
\* setMessages([...messages, newMessage]) sets the list to a value, so the
\* functional updates still queued before it have no effect on the result,
\* and its setIsTyping(true) follows any queued setIsTyping(false).
HandleSend ==
  /\ route = "/chat"
  /\ last' = "handleSend"
  /\ IF Trim(input) = <<>>
     THEN UNCHANGED <<route, formVars, chatVars, courtVars, timers, courtAge>>
     ELSE /\ nSend + nUpload < MaxActs
          /\ Len(timers) < MaxTimers
          /\ messages' = Append(messages,
                [id |-> Len(messages) + 1, text |-> input,
                 sender |-> "user", image |-> FALSE])
          /\ chatQueue' = <<>>
          /\ input' = <<>>
          /\ isTyping' = TRUE
          /\ timers' = SetTimeout(timers, "send", Len(messages) + 2,
                                  SendDelayMs, TRUE)
          /\ nSend' = nSend + 1
          /\ UNCHANGED <<route, formVars, nUpload, courtVars, courtAge>>

\* handleImageUpload, with the file the picker reports (file = FALSE: none).
HandleImageUpload(file) ==
  /\ route = "/chat"
  /\ last' = "handleImageUpload"
  /\ IF ~file
     THEN UNCHANGED <<route, formVars, chatVars, courtVars, timers, courtAge>>
     ELSE /\ nSend + nUpload < MaxActs
          /\ Len(timers) < MaxTimers
          /\ messages' = Append(messages,
                [id |-> Len(messages) + 1, text |-> UploadText,
                 sender |-> "user", image |-> TRUE])
          /\ chatQueue' = <<>>
          /\ isTyping' = TRUE
          /\ timers' = SetTimeout(timers, "upload", 0, UploadDelayMs, TRUE)
          /\ nUpload' = nUpload + 1
          /\ UNCHANGED <<route, formVars, input, nSend, courtVars, courtAge>>

\* FireChatTimer with the updates applied to whichever chat screen is mounted.
FireChatTimerAnyMount(i) ==
  /\ CanFire(i)
  /\ timers[i].kind \in {"send", "upload"}
  /\ timers' = RemoveAt(timers, i)
  /\ chatQueue' = Append(chatQueue, [kind |-> timers[i].kind, id |-> timers[i].id])
  /\ last' = "fireChatTimer"
  /\ UNCHANGED <<route, formVars, messages, input, isTyping, nSend, nUpload,
                 courtVars, courtAge>>

\* The callback of a timer set by handleSend or handleImageUpload:
\* setMessages(prev => [...prev, reply]); setIsTyping(false).  On a
\* component that is no longer mounted the updates do nothing.
FireChatTimer(i) ==
  /\ CanFire(i)
  /\ timers[i].kind \in {"send", "upload"}
  /\ timers' = RemoveAt(timers, i)
  /\ chatQueue' = IF timers[i].live
                  THEN Append(chatQueue, [kind |-> timers[i].kind, id |-> timers[i].id])
                  ELSE chatQueue
  /\ last' = "fireChatTimer"
  /\ UNCHANGED <<route, formVars, messages, input, isTyping, nSend, nUpload,
                 courtVars, courtAge>>

\* The render that commits the queued timer updates of the chat screen.
RenderChat ==
  /\ route = "/chat"
  /\ chatQueue # <<>>
  /\ messages' = ApplyChatQueue(messages, chatQueue)
  /\ isTyping' = FALSE
  /\ chatQueue' = <<>>
  /\ last' = "renderChat"
  /\ UNCHANGED <<route, formVars, input, nSend, nUpload, courtVars, timers, courtAge>>

\* ---------------------------------------------------------- moot court
\* onChange of the argument input, which is disabled while simulating
SetInputText(v) ==
  /\ route = "/court"
  /\ ~isSimulating
  /\ inputText' = v
  /\ last' = "setInputText"
  /\ UNCHANGED <<route, formVars, chatVars, courtMessages, isSimulating,
                 courtQueue, timers, courtAge>>

\* HandleUserSubmit without setIsSimulating(true).
HandleUserSubmitNoFlag ==
  /\ route = "/court"
  /\ ~isSimulating
  /\ last' = "handleUserSubmit"
  /\ IF Trim(inputText) = <<>>
     THEN UNCHANGED <<route, formVars, chatVars, courtVars, timers, courtAge>>
     ELSE /\ Len(timers) < MaxTimers
          /\ courtAge + OpponentDelayMs + JudgeDelayMs <= MaxAgeMs
          /\ courtMessages' = Append(CourtList,
                [id |-> DateNow, sender |-> "user", text |-> inputText])
          /\ courtQueue' = <<>>
          /\ inputText' = <<>>
          /\ isSimulating' = isSimulating
          /\ timers' = SetTimeout(timers, "opponent", 0, OpponentDelayMs, TRUE)
          /\ UNCHANGED <<route, formVars, chatVars, courtAge>>

\* HandleUserSubmit storing the trimmed input as the message text.
HandleUserSubmitTrimmed ==
  /\ route = "/court"
  /\ ~isSimulating
  /\ last' = "handleUserSubmit"
  /\ IF Trim(inputText) = <<>>
     THEN UNCHANGED <<route, formVars, chatVars, courtVars, timers, courtAge>>
     ELSE /\ Len(timers) < MaxTimers
          /\ courtAge + OpponentDelayMs + JudgeDelayMs <= MaxAgeMs
          /\ courtMessages' = Append(CourtList,
                [id |-> DateNow, sender |-> "user", text |-> Trim(inputText)])
          /\ courtQueue' = <<>>
          /\ inputText' = <<>>
          /\ isSimulating' = TRUE
          /\ timers' = SetTimeout(timers, "opponent", 0, OpponentDelayMs, TRUE)
          /\ UNCHANGED <<route, formVars, chatVars, courtAge>>

\* handleUserSubmit; the input and the button are disabled while simulating,
\* so the form is submitted only when the last render had isSimulating false.
HandleUserSubmit ==
  /\ route = "/court"
  /\ ~isSimulating
  /\ last' = "handleUserSubmit"
  /\ IF Trim(inputText) = <<>>
     THEN UNCHANGED <<route, formVars, chatVars, courtVars, timers, courtAge>>
     ELSE /\ Len(timers) < MaxTimers
          /\ courtAge + OpponentDelayMs + JudgeDelayMs <= MaxAgeMs
          /\ courtMessages' = Append(CourtList,
                [id |-> DateNow, sender |-> "user", text |-> inputText])
          /\ courtQueue' = <<>>
          /\ inputText' = <<>>
          /\ isSimulating' = TRUE
          /\ timers' = SetTimeout(timers, "opponent", 0, OpponentDelayMs, TRUE)
          /\ UNCHANGED <<route, formVars, chatVars, courtAge>>

\* Math.floor(Math.random() * n)
RandomIndex(n) == 0..(n - 1)

\* generateOpponentResponse, for the index the random draw gave
GenerateOpponentResponse(k) == OpponentResponses[k + 1]

\* generateJudgeResponse, for the index the random draw gave
GenerateJudgeResponse(k) == JudgeResponses[k + 1]

\* The callback of the timer set by handleUserSubmit: it appends the
\* opponent's message and sets the judge's timer.
FireOpponent(i, k) ==
  /\ CanFire(i)
  /\ timers[i].kind = "opponent"
  /\ courtQueue' = IF timers[i].live
                   THEN Append(courtQueue,
                          [msg |-> [id |-> DateNow + 1, sender |-> "opponent",
                                    text |-> GenerateOpponentResponse(k)],
                           done |-> FALSE])
                   ELSE courtQueue
  /\ timers' = SetTimeout(RemoveAt(timers, i), "judge", 0, JudgeDelayMs,
                          timers[i].live)
  /\ last' = "fireOpponent"
  /\ UNCHANGED <<route, formVars, chatVars, courtMessages, inputText,
                 isSimulating, courtAge>>

\* FireJudge without setIsSimulating(false).
FireJudgeKeepFlag(i, k) ==
  /\ CanFire(i)
  /\ timers[i].kind = "judge"
  /\ courtQueue' = IF timers[i].live
                   THEN Append(courtQueue,
                          [msg |-> [id |-> DateNow + 2, sender |-> "judge",
                                    text |-> GenerateJudgeResponse(k)],
                           done |-> FALSE])
                   ELSE courtQueue
  /\ timers' = RemoveAt(timers, i)
  /\ last' = "fireJudge"
  /\ UNCHANGED <<route, formVars, chatVars, courtMessages, inputText,
                 isSimulating, courtAge>>

\* The callback of the timer set by the opponent's callback: it appends the
\* judge's message and clears isSimulating.
FireJudge(i, k) ==
  /\ CanFire(i)
  /\ timers[i].kind = "judge"
  /\ courtQueue' = IF timers[i].live
                   THEN Append(courtQueue,
                          [msg |-> [id |-> DateNow + 2, sender |-> "judge",
                                    text |-> GenerateJudgeResponse(k)],
                           done |-> TRUE])
                   ELSE courtQueue
  /\ timers' = RemoveAt(timers, i)
  /\ last' = "fireJudge"
  /\ UNCHANGED <<route, formVars, chatVars, courtMessages, inputText,
                 isSimulating, courtAge>>

\* The render that commits the queued timer updates of the court screen.
RenderCourt ==
  /\ route = "/court"
  /\ courtQueue # <<>>
  /\ courtMessages' = ApplyCourtQueue(courtMessages, courtQueue)
  /\ isSimulating' = IF \E j \in 1..Len(courtQueue) : courtQueue[j].done
                     THEN FALSE ELSE isSimulating
  /\ courtQueue' = <<>>
  /\ last' = "renderCourt"
  /\ UNCHANGED <<route, formVars, chatVars, inputText, timers, courtAge>>

\* -------------------------------------------------------- specification
Next ==
  \/ \E r \in Routes : ClickLink(r)
  \/ \E r \in Routes : HistoryGo(r)
  \/ \E r \in Routes : LoadUrl(r)
  \/ Tick
  \/ \E name \in {"email", "password"}, value \in FieldValues :
        LoginHandleChange(name, value)
  \/ LoginHandleSubmit
  \/ \E name \in {"email", "password", "confirmPassword"}, value \in FieldValues :
        SignUpHandleChange(name, value)
  \/ SignUpHandleSubmit
  \/ \E v \in InputTexts : SetInput(v)
  \/ HandleSend
  \/ \E file \in BOOLEAN : HandleImageUpload(file)
  \/ \E i \in 1..Len(timers) : FireChatTimer(i)
  \/ RenderChat
  \/ \E v \in InputTexts : SetInputText(v)
  \/ HandleUserSubmit
  \/ \E i \in 1..Len(timers), k \in RandomIndex(Len(OpponentResponses)) :
        FireOpponent(i, k)
  \/ \E i \in 1..Len(timers), k \in RandomIndex(Len(JudgeResponses)) :
        FireJudge(i, k)
  \/ RenderCourt

Spec == Init /\ [][Next]_vars

\* Some pending timer is being followed.
MarkedPending == \E i \in 1..Len(timers) : timers[i].mark

\* An observer picks one pending timer to follow; nothing of the program
\* changes.
Observe(i) ==
  /\ i \in 1..Len(timers)
  /\ ~MarkedPending
  /\ timers' = [timers EXCEPT ![i].mark = TRUE]
  /\ last' = "observe"
  /\ UNCHANGED <<route, formVars, chatVars, courtVars, courtAge>>

\* The routes of a session on the chat and court screens; "/" stands for
\* the screens that set no timer.
SessionRoutes == {"/", "/chat", "/court"}

\* The page is loaded on one of the session's routes.
SessionInit == Init /\ route \in SessionRoutes

\* A draft that passes the trim test.
Draft == <<" ", "a">>

\* The user opens the chat screen or the court screen only when no timer of
\* the other screen is pending: the sessions followed are those in which the
\* pending timers all belong to one screen, the mounted session of it or
\* earlier ones.
ScreensApart(r) ==
  \A i \in 1..Len(timers) :
    /\ r = "/chat" => timers[i].kind \in {"send", "upload"}
    /\ r = "/court" => timers[i].kind \in {"opponent", "judge"}

\* The steps of one page load on the chat and court screens: navigation
\* inside the application, the passing of time, the handlers and timer
\* callbacks of the two screens, and the observer.  The drafts and the
\* random draws play no part in the timers: the user types Draft and the
\* draw gives the first literal.
SessionNext ==
  \/ \E r \in SessionRoutes : ScreensApart(r) /\ ClickLink(r)
  \/ \E r \in SessionRoutes : ScreensApart(r) /\ HistoryGo(r)
  \/ Tick
  \/ SetInput(Draft)
  \/ HandleSend
  \/ \E file \in BOOLEAN : HandleImageUpload(file)
  \/ \E i \in 1..Len(timers) : FireChatTimer(i)
  \/ RenderChat
  \/ SetInputText(Draft)
  \/ HandleUserSubmit
  \/ \E i \in 1..Len(timers) : FireOpponent(i, 0)
  \/ \E i \in 1..Len(timers) : FireJudge(i, 0)
  \/ RenderCourt
  \/ \E i \in 1..Len(timers) : Observe(i)

\* The event loop: time passes while no callback is waiting to run, and a
\* timer's callback runs once the timer is due.
EventLoop ==
  \/ Tick
  \/ \E i \in 1..Len(timers) : FireChatTimer(i)
  \/ \E i \in 1..Len(timers) : FireOpponent(i, 0)
  \/ \E i \in 1..Len(timers) : FireJudge(i, 0)

\* React renders the updates that timer callbacks have queued.
Rendering == RenderChat \/ RenderCourt

\* A session in which the event loop and React keep running.
FairSpec ==
  /\ SessionInit
  /\ [][SessionNext]_vars
  /\ WF_vars(EventLoop)
  /\ WF_vars(Rendering)

\* No reply of the mounted chat session is pending: every timer the session
\* set has run and its update has been rendered.
NoReplyPending ==
  /\ chatQueue = <<>>
  /\ \A i \in 1..Len(timers) : ~timers[i].live

\* The steps of the chat screen for a user who submits or uploads only when
\* no reply is pending, with navigation, page loads and the passing of time.
SerialNext ==
  \/ \E r \in Routes : ClickLink(r)
  \/ \E r \in Routes : HistoryGo(r)
  \/ \E r \in Routes : LoadUrl(r)
  \/ Tick
  \/ \E v \in InputTexts : SetInput(v)
  \/ NoReplyPending /\ HandleSend
  \/ \E file \in BOOLEAN : NoReplyPending /\ HandleImageUpload(file)
  \/ \E i \in 1..Len(timers) : FireChatTimer(i)
  \/ RenderChat

\* The chat screen used one request at a time.
SerialSpec == Init /\ [][SerialNext]_vars

\* ------------------------------------------------------------- claims
\* The screen at route r has just mounted.
JustMounted(r) ==
  route = r /\ last \in {"load", "link", "history", "loginSubmit", "signupSubmit"}

\* No reply of the mounted chat session is outstanding: no timer of the
\* session is pending and no timer update waits for its render.
ChatQuiet ==
  /\ route = "/chat"
  /\ chatQueue = <<>>
  /\ \A i \in 1..Len(timers) : ~timers[i].live

\* The positions of the list ms whose message has sender s and text t.
Positions(ms, s, t) == {i \in 1..Len(ms) : ms[i].sender = s /\ ms[i].text = t}

\* C1: in every reachable state of a chat session no two messages of the
\* list have the same id.
C1_UniqueIds ==
  \A i, j \in 1..Len(messages) : i # j => messages[i].id # messages[j].id

\* C2: once every reply timer of the chat session has fired and rendered,
\* the list holds one placeholder 'bot' reply per accepted text submit (and
\* one 'user' message per accepted submit or upload).
C2_OneReplyPerSubmit ==
  ChatQuiet =>
    /\ Cardinality(Positions(messages, "bot", PlaceholderText)) = nSend
    /\ Cardinality({i \in 1..Len(messages) : messages[i].sender = "user"})
         = nSend + nUpload

\* C3: the message list of a mounted chat or court session is append-only:
\* over every step that keeps the session mounted, the list (with the queued
\* timer appends applied) before the step is a prefix of the list after it.
C3_AppendOnly ==
  [][(route' = route /\ last' # "load")
       => (IsPrefix(ChatList, ChatList') /\ IsPrefix(CourtList, CourtList'))]_vars

\* C4: in the chat screen isTyping is true in every state in which a reply
\* timer of the session has been set and has not yet fired.
C4_TypingWhilePending ==
  (route = "/chat" /\ \E i \in 1..Len(timers) : timers[i].live) => isTyping

\* C5: on the chat and court screens a submit of an input that is empty or
\* only whitespace changes nothing: no message, no timer, the flag and the
\* input as they were.
C5_BlankSubmitNoChange ==
  [][((last' = "handleSend" /\ Trim(input) = <<>>)
       \/ (last' = "handleUserSubmit" /\ Trim(inputText) = <<>>))
      => UNCHANGED <<route, formVars, chatVars, courtVars, timers, courtAge>>]_vars

\* C5 witness: a whitespace-only input was submitted in the chat screen while
\* a reply was pending, and is still in the input.
C5_Witness ==
  /\ route = "/chat"
  /\ last = "handleSend"
  /\ input = << " " >>
  /\ isTyping
  /\ \E i \in 1..Len(timers) : timers[i].live

\* C6, as claimed: every signup submit with password # confirm-password
\* shows 'Passwords do not match!' and does not navigate, whatever the other
\* fields hold.
C6_MismatchAlwaysReported ==
  [][(last' = "signupSubmit" /\ formData.password # formData.confirmPassword)
      => (signupError' = MismatchText /\ route' = route)]_vars

\* C6, amended: every signup submit with password # confirm-password leaves
\* the route and the draft as they were and shows an error: 'Passwords do
\* not match!' when the three fields are non-empty, 'Please fill in all
\* fields.' when one of them is empty.
C6_MismatchNeverNavigates ==
  [][(last' = "signupSubmit" /\ formData.password # formData.confirmPassword)
      => /\ route' = "/signup"
         /\ formData' = formData
         /\ signupError' =
              IF formData.email = "" \/ formData.password = ""
                                     \/ formData.confirmPassword = ""
              THEN FillAllFieldsText ELSE MismatchText]_vars

\* C6 witness: a submit of three non-empty fields with differing passwords
\* has shown the mismatch error.
C6_Witness ==
  /\ route = "/signup"
  /\ last = "signupSubmit"
  /\ formData.email # ""
  /\ formData.password # formData.confirmPassword
  /\ signupError = MismatchText

C8_LoginSubmit ==
  [][last' = "loginSubmit"
      => IF credentials.email # "" /\ credentials.password # ""
         THEN route' = "/chat" /\ loginError' = ""
         ELSE /\ route' = "/login"
              /\ loginError' = LoginErrorText
              /\ credentials' = credentials]_vars

\* C8 witness: a login submit with the email given and the password empty
\* has shown the error.
C8_Witness ==
  /\ route = "/login"
  /\ last = "loginSubmit"
  /\ credentials.email # ""
  /\ credentials.password = ""
  /\ loginError = LoginErrorText

\* C9: once every reply timer of the chat session has fired and rendered,
\* the list holds one 'user' message with an attachment and one analysis
\* 'bot' reply per upload with a file.
C9_OneAnalysisPerUpload ==
  ChatQuiet =>
    /\ Cardinality(Positions(messages, "bot", AnalysisText)) = nUpload
    /\ Cardinality({i \in 1..Len(messages) :
                      messages[i].sender = "user" /\ messages[i].image}) = nUpload

\* C10, as claimed: a chat or court screen that has just mounted has no
\* messages and its flag is false.
C10_MountsEmpty ==
  /\ JustMounted("/chat") => (messages = <<>> /\ ~isTyping)
  /\ JustMounted("/court") => (courtMessages = <<>> /\ ~isSimulating)

\* C10, amended: a chat or court screen that has just mounted holds exactly
\* its one initial message (the greeting, the opening statement), an empty
\* input, nothing queued and a false flag, whatever an earlier session held.
C10_MountsInitial ==
  /\ JustMounted("/chat")
       => /\ messages = InitialChatMessages
          /\ input = <<>>
          /\ chatQueue = <<>>
          /\ ~isTyping
  /\ JustMounted("/court")
       => /\ courtMessages = InitialCourtMessages
          /\ inputText = <<>>
          /\ courtQueue = <<>>
          /\ ~isSimulating

\* C10 witness: the chat screen has just mounted while a reply timer of an
\* earlier chat session is still pending.
C10_Witness ==
  /\ JustMounted("/chat")
  /\ Len(messages) = 1
  /\ \E i \in 1..Len(timers) :
        ~timers[i].live /\ timers[i].kind \in {"send", "upload"}

\* No reply of the mounted court session is outstanding.
CourtQuiet ==
  /\ route = "/court"
  /\ courtQueue = <<>>
  /\ \A i \in 1..Len(timers) : ~timers[i].live

\* The number of messages of the list ms whose sender is s.
CountSender(ms, s) == Cardinality({i \in 1..Len(ms) : ms[i].sender = s})

\* C11, as claimed: once every reply timer of the court session has fired
\* and rendered, the list holds one reply message per 'user' message.
C11_OneReplyPerSubmit ==
  CourtQuiet =>
    Len(courtMessages) - 1 - CountSender(courtMessages, "user")
      = CountSender(courtMessages, "user")

\* C11, amended: every accepted court submit appends exactly one 'user'
\* message with the literal input text and sets one timer; once every reply
\* timer has fired and rendered the list holds two replies per submit, one
\* 'opponent' message and one 'judge' message.
C11_TwoRepliesPerSubmit ==
  [][/\ (last' = "handleUserSubmit" /\ Trim(inputText) # <<>>)
        => /\ CourtList' = Append(CourtList,
                 [id |-> DateNow, sender |-> "user", text |-> inputText])
           /\ Len(timers') = Len(timers) + 1
     /\ CourtQuiet'
        => /\ CountSender(courtMessages', "opponent")
                = CountSender(courtMessages', "user")
           /\ CountSender(courtMessages', "judge")
                = CountSender(courtMessages', "user") + 1]_vars

\* C11 witness: a court submit has received both its replies.
C11_Witness ==
  /\ CourtQuiet
  /\ CountSender(courtMessages, "user") = 1
  /\ Len(courtMessages) = 4

\* The number of pending timers of the list ts that were set by the mounted
\* session and whose kind is in K.
LiveOf(ts, K) ==
  Cardinality({i \in 1..Len(ts) : ts[i].live /\ ts[i].kind \in K})

\* The step ran the callback of a timer set by a session that is no longer
\* mounted: a timer ran and the mounted session has as many timers of that
\* kind pending as before.
StaleFired ==
  \/ /\ last' = "fireChatTimer"
     /\ LiveOf(timers', {"send", "upload"}) = LiveOf(timers, {"send", "upload"})
  \/ /\ last' = "fireOpponent"
     /\ LiveOf(timers', {"opponent"}) = LiveOf(timers, {"opponent"})
  \/ /\ last' = "fireJudge"
     /\ LiveOf(timers', {"judge"}) = LiveOf(timers, {"judge"})

\* C12: a reply timer set by a session that has since been unmounted changes
\* nothing of the mounted screens when it runs: no message is appended or
\* queued and neither awaiting-response flag changes.
C12_StaleTimerNoEffect ==
  [][StaleFired => UNCHANGED <<chatVars, courtVars>>]_vars

\* C12 witness: the timer of an earlier chat session has just run while a
\* new chat session, which has set no timer of its own, is mounted.
C12_Witness ==
  /\ route = "/chat"
  /\ last = "fireChatTimer"
  /\ nSend + nUpload = 0
  /\ messages = InitialChatMessages
  /\ ~isTyping

\* The followed timer, when one is pending.
Marked == timers[CHOOSE i \in 1..Len(timers) : timers[i].mark]

\* C13: a timer that has been set stays pending, with its kind and delay,
\* through every submit, upload and navigation, and leaves the pending
\* timers only in the step that runs its callback; under fairness of the
\* event loop that step eventually comes.
C13_TimerFiresOnce ==
  /\ [][/\ (MarkedPending /\ ~MarkedPending')
           => /\ last' \in {"fireChatTimer", "fireOpponent", "fireJudge"}
              /\ CanFire(CHOOSE i \in 1..Len(timers) : timers[i].mark)
        /\ (MarkedPending /\ MarkedPending')
           => /\ Marked'.kind = Marked.kind
              /\ Marked'.delay = Marked.delay
              /\ Marked'.left <= Marked.left
              /\ last' \notin {"fireChatTimer", "fireOpponent", "fireJudge"}
                   => Len(timers') >= Len(timers)]_vars
  /\ (MarkedPending ~> ~MarkedPending)

\* C13 witness: a followed timer is still pending after the user has left
\* the screen that set it and has made a submit on a newly mounted screen.
C13_Witness ==
  /\ MarkedPending
  /\ ~Marked.live
  /\ last \in {"handleSend", "handleImageUpload", "handleUserSubmit"}
  /\ Len(timers) = 2

\* The record g is the record f with at most one field given a new value.
OneFieldChanged(f, g) ==
  /\ DOMAIN g = DOMAIN f
  /\ \E name \in DOMAIN f : g = [f EXCEPT ![name] = g[name]]

\* C14: a change to a field of the login form or of the signup form made
\* while that form's validation error is displayed clears the error and
\* gives the draft the new value of that one field, its other fields kept.
C14_ChangeClearsError ==
  [][/\ (loginError # "" /\ last' \in {"loginChange", "loginChangeClear"})
        => /\ loginError' = ""
           /\ OneFieldChanged(credentials, credentials')
           /\ route' = route
     /\ (signupError # "" /\ last' \in {"signupChange", "signupChangeClear"})
        => /\ signupError' = ""
           /\ OneFieldChanged(formData, formData')
           /\ route' = route]_vars

\* C14 witness: a field was changed while the login form showed its error,
\* and a field was given a value.
C14_Witness ==
  /\ last = "loginChangeClear"
  /\ loginError = ""
  /\ credentials # InitialCredentials

\* C14 witness on the signup form, for the error of a mismatch.
C14_WitnessSignUp ==
  /\ last = "signupChangeClear"
  /\ signupError = ""
  /\ formData.password # ""
  /\ formData.confirmPassword # ""

\* C15: in every state, whatever was or was not submitted before, each of
\* the five routes can be loaded and each other route can be navigated to
\* inside the application, and the screen then shown is that route's, newly
\* mounted.
C15_NoRouteGuard ==
  \A r \in Routes :
    /\ ENABLED (LoadUrl(r) /\ JustMounted(r)')
    /\ r # route => ENABLED (HistoryGo(r) /\ JustMounted(r)')

\* C15 witness: the court screen is shown by a page loaded at /court, with
\* no form ever submitted in that page.
C15_Witness ==
  /\ route = "/court"
  /\ last = "load"
  /\ courtMessages = InitialCourtMessages

\* C16: in the chat screen a submit of non-blank text is accepted while a
\* reply of the session is still pending: it appends its user message after
\* whatever the list then ends with and sets one more timer, the pending one
\* kept.
C16_SubmitWhilePending ==
  ( /\ route = "/chat"
    /\ Trim(input) # <<>>
    /\ LiveOf(timers, {"send", "upload"}) > 0
    /\ nSend + nUpload < MaxActs
    /\ Len(timers) < MaxTimers )
  => ENABLED ( /\ HandleSend
               /\ Len(messages') = Len(messages) + 1
               /\ messages'[Len(messages')].sender = "user"
               /\ messages'[Len(messages')].text = input
               /\ LiveOf(timers', {"send", "upload"})
                    = LiveOf(timers, {"send", "upload"}) + 1 )

\* C16 witness: a submit was accepted while the reply to the user message
\* before it was pending, and the two user messages are adjacent in the list.
C16_Witness ==
  /\ route = "/chat"
  /\ last = "handleSend"
  /\ Len(messages) >= 3
  /\ messages[Len(messages)].sender = "user"
  /\ messages[Len(messages) - 1].sender = "user"
  /\ LiveOf(timers, {"send", "upload"}) = 2

\* The sender of the last message of the list ms.
LastSender(ms) == ms[Len(ms)].sender

\* C17: in the court screen a message is an 'opponent' message exactly when
\* it directly follows a 'user' message and a 'judge' message (after the
\* opening one) exactly when it directly follows an 'opponent' message; the
\* opponent's timer is pending exactly while the list ends with the user's
\* message and the judge's timer exactly while it ends with the opponent's,
\* so the judge's timer is set when the opponent's message is appended; and
\* isSimulating is true exactly while the rendered list does not end with a
\* 'judge' message, so it is cleared in the render that shows the judge's.
C17_OpponentThenJudge ==
  route = "/court" =>
    /\ \A i \in 2..Len(CourtList) :
         /\ CourtList[i].sender = "opponent" <=> CourtList[i - 1].sender = "user"
         /\ CourtList[i].sender = "judge" <=> CourtList[i - 1].sender = "opponent"
    /\ LiveOf(timers, {"opponent"}) = IF LastSender(CourtList) = "user" THEN 1 ELSE 0
    /\ LiveOf(timers, {"judge"}) = IF LastSender(CourtList) = "opponent" THEN 1 ELSE 0
    /\ isSimulating <=> LastSender(courtMessages) # "judge"

\* C17 witness: the render that shows the judge's message of a round has
\* just cleared isSimulating.
C17_Witness ==
  /\ route = "/court"
  /\ last = "renderCourt"
  /\ ~isSimulating
  /\ Len(courtMessages) = 4
  /\ courtMessages[2].sender = "user"
  /\ courtMessages[3].sender = "opponent"
  /\ courtMessages[4].sender = "judge"

\* The sender of the message at position i of a court list of whole rounds
\* after the opening message.
RoundSender(i) ==
  IF i = 1 THEN "judge"
  ELSE CASE (i - 2) % 3 = 0 -> "user"
         [] (i - 2) % 3 = 1 -> "opponent"
         [] OTHER -> "judge"

\* C18: in the court screen, while isSimulating is true the draft cannot be
\* changed and no submit is accepted; the session has at most one reply
\* timer pending; the rendered list is the opening judge message followed by
\* rounds of user, opponent, judge in that order, the last round possibly
\* cut after the user's or the opponent's message; and isSimulating is true
\* exactly when the last round is cut.
C18_RoundShape ==
  route = "/court" =>
    /\ isSimulating => /\ ~ENABLED (HandleUserSubmit /\ CourtList' # CourtList)
                       /\ \A v \in InputTexts : ~ENABLED SetInputText(v)
    /\ LiveOf(timers, {"opponent", "judge"}) <= 1
    /\ \A i \in 1..Len(courtMessages) : courtMessages[i].sender = RoundSender(i)
    /\ isSimulating <=> (Len(courtMessages) - 1) % 3 # 0

\* C18 witness: one whole round and the user's message of the next are in
\* the rendered list, and the court awaits the opponent.
C18_Witness ==
  /\ route = "/court"
  /\ isSimulating
  /\ Len(courtMessages) = 5
  /\ LiveOf(timers, {"opponent"}) = 1

\* C19, as claimed: in the chat screen the replies of a session are appended
\* in the order of the actions that set their timers: the timer whose reply
\* is appended is the one set first among the session's pending timers.
C19_RepliesInOrder ==
  [][( /\ last' = "fireChatTimer"
       /\ LiveOf(timers', {"send", "upload"}) < LiveOf(timers, {"send", "upload"}) )
     => \E i \in 1..Len(timers) :
          /\ timers' = RemoveAt(timers, i)
          /\ timers[i].live
          /\ \A j \in 1..(i - 1) : ~timers[j].live]_vars

\* C20, as claimed: on the chat screen and on the court screen, at the point
\* where the awaiting-response flag of the session becomes false no reply
\* timer of the session is pending (so that, with no further submit or
\* upload, the flag stays false and nothing is left to run).
C20_FlagFalseNoTimer ==
  [][( /\ route' = route
       /\ \/ route = "/chat" /\ isTyping /\ ~isTyping'
          \/ route = "/court" /\ isSimulating /\ ~isSimulating' )
     => LiveOf(timers', {"send", "upload", "opponent", "judge"}) = 0]_vars

\* One of the three fields of the signup draft f is empty.
SomeFieldEmpty(f) == f.email = "" \/ f.password = "" \/ f.confirmPassword = ""

\* C21: a signup submit tests emptiness before equality.  With any of the
\* three fields empty it sets 'Please fill in all fields.', whether or not
\* the passwords differ; it sets 'Passwords do not match!' exactly when the
\* three fields are non-empty and the passwords differ; and in both cases
\* the draft and the route are as before the submit.
C21_EmptinessBeforeEquality ==
  [][last' = "signupSubmit"
     => /\ SomeFieldEmpty(formData) => signupError' = FillAllFieldsText
        /\ signupError' = MismatchText
             <=> ( ~SomeFieldEmpty(formData)
                   /\ formData.password # formData.confirmPassword )
        /\ signupError' \in {FillAllFieldsText, MismatchText}
             => (formData' = formData /\ route' = route)]_vars

\* C21 witness: a submit with two differing non-empty passwords and no email
\* has shown the fill-in error and left the draft in place.
C21_Witness ==
  /\ route = "/signup"
  /\ last = "signupSubmit"
  /\ formData.email = ""
  /\ formData.password # ""
  /\ formData.confirmPassword # ""
  /\ formData.password # formData.confirmPassword
  /\ signupError = FillAllFieldsText

\* C22: when every submit and upload of the chat screen is made with no
\* reply pending, the id of every message is its position in the list,
\* both in the rendered list and in the list with the queued reply applied.
C22_IdsArePositions ==
  route = "/chat" =>
    /\ \A i \in 1..Len(messages) : messages[i].id = i
    /\ \A i \in 1..Len(ChatList) : ChatList[i].id = i

\* C22 witness: a text submit and an upload, each made with no reply
\* pending, have both received their replies.
C22_Witness ==
  /\ ChatQuiet
  /\ nSend = 1
  /\ nUpload = 1
  /\ Len(messages) = 5
  /\ messages[5].sender = "bot"

\* The elements of the sequence q.
Range(q) == {q[i] : i \in 1..Len(q)}

\* C23: reply texts are the program's literals.  In the court screen the
\* random index is one of 0..4, every 'opponent' message has one of the five
\* opponent literals as its text and every 'judge' message after the opening
\* one has one of the five judge literals.  In the chat screen every 'bot'
\* message after the greeting has the placeholder text or the analysis text,
\* whatever the user typed, with no more placeholder replies than text
\* submits and no more analysis replies than uploads.
C23_RepliesFromLiterals ==
  /\ RandomIndex(Len(OpponentResponses)) = 0..4
  /\ RandomIndex(Len(JudgeResponses)) = 0..4
  /\ \A i \in 2..Len(CourtList) :
       /\ CourtList[i].sender = "opponent"
            => CourtList[i].text \in Range(OpponentResponses)
       /\ CourtList[i].sender = "judge"
            => CourtList[i].text \in Range(JudgeResponses)
  /\ \A i \in 2..Len(ChatList) :
       ChatList[i].sender = "bot"
         => ChatList[i].text \in {PlaceholderText, AnalysisText}
  /\ Cardinality(Positions(ChatList, "bot", PlaceholderText)) <= nSend
  /\ Cardinality(Positions(ChatList, "bot", AnalysisText)) <= nUpload

\* C23 witness: a court round whose two draws gave the last index, the
\* opponent's and the judge's fifth literals being in the rendered list.
C23_Witness ==
  /\ route = "/court"
  /\ Len(courtMessages) = 4
  /\ courtMessages[3].sender = "opponent"
  /\ courtMessages[3].text = OpponentResponses[5]
  /\ courtMessages[4].sender = "judge"
  /\ courtMessages[4].text = JudgeResponses[5]

\* C23 witness on the chat screen: a text submit and an upload have their
\* replies, the placeholder text and the analysis text.
C23_WitnessChat ==
  /\ route = "/chat"
  /\ Positions(messages, "bot", PlaceholderText) # {}
  /\ Positions(messages, "bot", AnalysisText) # {}

=============================================================================
